---- MODULE Spec2Model ----
(***************************************************************************)
(* Model of pcta (src/src/main.rs): the scrape -> parse -> filter ->       *)
(* classify pipeline and the polling loop loop_scrape.                     *)
(*                                                                         *)
(* Strings that the program parses are sequences of one-character strings  *)
(* so that parsing is computed, not assumed.  Message bodies are records   *)
(* holding the format template and the values interpolated into it; the    *)
(* templates are written without their Markdown backquotes and fences.     *)
(***************************************************************************)
EXTENDS Integers, Sequences, FiniteSets, TLC

VARIABLES
    pc,            \* position of loop_scrape (or of the filter harness)
    rand_interval, \* main.rs:245
    now_time,      \* main.rs:253, milliseconds since local midnight
    page,          \* what the GET of main.rs:73-98 produced in this tick
    res,           \* main.rs:297, result of scrape
    msg_json,      \* main.rs:298, payload built by handle_result
    issued,        \* keybase processes spawned in this tick, in order
    reconnects,    \* mullvad processes spawned in this tick
    fetched,       \* TRUE once scrape has been called in this tick
    tick_kind,     \* "none", "outside" or "inside": branch taken at main.rs:260
    panic,         \* message of the panic that ended loop_scrape, or NoPanic
    calendar,      \* filter harness: Data.calendar
    limit,         \* filter harness: Data.limit
    children,      \* spawned processes that have not finished, oldest first
    overtook       \* older keybase processes still running when the last
                   \* keybase process to finish delivered its message

vars == << pc, rand_interval, now_time, page, res, msg_json, issued,
           reconnects, fetched, tick_kind, panic, calendar, limit,
           children, overtook >>

----------------------------------------------------------------------------
(* Program constants *)

PERIOD_MIN == 24
PERIOD_MAX == 40
LIMIT == 50
RANGE_YEAR == 2023
RANGE_MONTH_START == 4
RANGE_DAY_START == 1
RANGE_MONTH_END == 5
RANGE_DAY_END == 5

(* Bound of the filter harness: longest calendar drawn *)
MaxLen == 2

(* Bound of the loop: spawned processes running at the same time *)
MaxChildren == 3

----------------------------------------------------------------------------
(* Characters and numbers *)

Digits == << "0", "1", "2", "3", "4", "5", "6", "7", "8", "9" >>

IsDigit(c) == \E i \in 1..10 : Digits[i] = c

DigitVal(c) == (CHOOSE i \in 1..10 : Digits[i] = c) - 1

Drop(s, n) == SubSeq(s, n + 1, Len(s))

Take(s, n) == SubSeq(s, 1, n)

\* number of leading digit characters of s
RECURSIVE LeadingDigits(_)
LeadingDigits(s) ==
    IF s = << >> \/ ~IsDigit(Head(s)) THEN 0 ELSE 1 + LeadingDigits(Tail(s))

\* value of a sequence of digit characters (short enough not to overflow)
RECURSIVE DigitsVal(_)
DigitsVal(s) ==
    IF s = << >> THEN 0
    ELSE 10 * DigitsVal(Take(s, Len(s) - 1)) + DigitVal(s[Len(s)])

RECURSIVE StripZeros(_)
StripZeros(s) ==
    IF s # << >> /\ Head(s) = "0" THEN StripZeros(Tail(s)) ELSE s

\* lexicographic a <= b for digit sequences of equal length
RECURSIVE DigitsLe(_, _)
DigitsLe(a, b) ==
    IF a = << >> THEN TRUE
    ELSE IF DigitVal(Head(a)) < DigitVal(Head(b)) THEN TRUE
    ELSE IF DigitVal(Head(a)) > DigitVal(Head(b)) THEN FALSE
    ELSE DigitsLe(Tail(a), Tail(b))

\* u64::MAX = 18446744073709551615, as digits
U64MaxDigits ==
    << "1","8","4","4","6","7","4","4","0","7",
       "3","7","0","9","5","5","1","6","1","5" >>

\* entry.num.parse::<u64>() (main.rs:138): an optional '+', then one or more
\* digits, value at most u64::MAX.  The parsed number is kept as its digits
\* without leading zeros, so that no 64-bit value has to be computed.
ParseU64(s) ==
    LET body == IF s # << >> /\ Head(s) = "+" THEN Tail(s) ELSE s
        canon == StripZeros(body)
    IN  IF s = << >> THEN [ok |-> FALSE, digits |-> << >>, kind |-> "Empty"]
        ELSE IF body = << >> \/ LeadingDigits(body) # Len(body)
            THEN [ok |-> FALSE, digits |-> << >>, kind |-> "InvalidDigit"]
        ELSE IF Len(canon) > 20 \/ (Len(canon) = 20 /\ ~DigitsLe(canon, U64MaxDigits))
            THEN [ok |-> FALSE, digits |-> << >>, kind |-> "PosOverflow"]
        ELSE [ok |-> TRUE, digits |-> canon, kind |-> "none"]

\* entry_num < LIMIT (main.rs:146) on a parsed number; LIMIT has two digits
NumLtInclusive(digits, n) == Len(digits) <= 2 /\ DigitsVal(digits) <= n

NumLt(digits, n) == Len(digits) <= 2 /\ DigitsVal(digits) < n

----------------------------------------------------------------------------
(* Dates *)

IsLeap(y) == (y % 4 = 0 /\ y % 100 # 0) \/ y % 400 = 0

DaysInMonth(y, m) ==
    IF m = 2 THEN (IF IsLeap(y) THEN 29 ELSE 28)
    ELSE IF m \in {4, 6, 9, 11} THEN 30 ELSE 31

\* NaiveDate::from_ymd_opt
ValidYmd(y, m, d) == m \in 1..12 /\ d >= 1 /\ d <= DaysInMonth(y, m)

\* NaiveDate::parse_from_str(s, "%Y-%m-%d") (main.rs:130-131) on input without
\* sign or whitespace: a year of 1 to 4 digits, '-', a month of 1 or 2
\* digits, '-', a day of 1 or 2 digits, nothing after it, and the three
\* numbers must name a day of the calendar.
ParseDate(s) ==
    LET bad(k) == [ok |-> FALSE, y |-> 0, m |-> 0, d |-> 0, kind |-> k]
        ny == IF LeadingDigits(s) > 4 THEN 4 ELSE LeadingDigits(s)
        s1 == Drop(s, ny)
        s2 == Drop(s1, 1)
        nm == IF LeadingDigits(s2) > 2 THEN 2 ELSE LeadingDigits(s2)
        s3 == Drop(s2, nm)
        s4 == Drop(s3, 1)
        nd == IF LeadingDigits(s4) > 2 THEN 2 ELSE LeadingDigits(s4)
        s5 == Drop(s4, nd)
        y  == DigitsVal(Take(s, ny))
        m  == DigitsVal(Take(s2, nm))
        d  == DigitsVal(Take(s4, nd))
    IN  IF s = << >> THEN bad("TooShort")
        ELSE IF ny = 0 THEN bad("Invalid")
        ELSE IF s1 = << >> THEN bad("TooShort")
        ELSE IF Head(s1) # "-" THEN bad("Invalid")
        ELSE IF s2 = << >> THEN bad("TooShort")
        ELSE IF nm = 0 THEN bad("Invalid")
        ELSE IF s3 = << >> THEN bad("TooShort")
        ELSE IF Head(s3) # "-" THEN bad("Invalid")
        ELSE IF s4 = << >> THEN bad("TooShort")
        ELSE IF nd = 0 THEN bad("Invalid")
        ELSE IF s5 # << >> THEN bad("TooLong")
        ELSE IF ~ValidYmd(y, m, d) THEN bad("OutOfRange")
        ELSE [ok |-> TRUE, y |-> y, m |-> m, d |-> d, kind |-> "none"]

\* a NaiveDate
Ymd(y, m, d) == [y |-> y, m |-> m, d |-> d]

\* NaiveDate's ordering
DateLt(a, b) ==
    \/ a.y < b.y
    \/ a.y = b.y /\ a.m < b.m
    \/ a.y = b.y /\ a.m = b.m /\ a.d < b.d

DateLe(a, b) == a = b \/ DateLt(a, b)

range_start == Ymd(RANGE_YEAR, RANGE_MONTH_START, RANGE_DAY_START)

range_end == Ymd(RANGE_YEAR, RANGE_MONTH_END, RANGE_DAY_END)

----------------------------------------------------------------------------
(* anyhow::Result<Vec<(NaiveDate, u64)>> *)

\* one message of an error chain: a format string and its arguments
Desc(m, a) == [msg |-> m, args |-> a]

\* an anyhow::Error: its chain of messages, outermost context first
Ok(v) == [tag |-> "Ok", val |-> v, err |-> << >>]

Err(chain) == [tag |-> "Err", val |-> << >>, err |-> chain]

\* scrape did not return: a panic unwound through it
Panicked(m) == [tag |-> "Panic", val |-> << >>, err |-> << Desc(m, << >>) >>]

NoRes == [tag |-> "None", val |-> << >>, err |-> << >>]

\* the for loop of scrape, from entry i on, with `results` as built so far
RECURSIVE FilterFromSkipping(_, _, _)
FilterFromSkipping(cal, i, results) ==
    IF i > Len(cal) THEN Ok(results)
    ELSE
        LET entry == cal[i]
            entry_date == ParseDate(entry.start_date)
            entry_num == ParseU64(entry.num)
        IN  IF ~entry_date.ok \/ ~entry_num.ok
                THEN FilterFromSkipping(cal, i + 1, results)
            ELSE IF /\ DateLt(range_start, Ymd(entry_date.y, entry_date.m, entry_date.d))
                    /\ DateLe(Ymd(entry_date.y, entry_date.m, entry_date.d), range_end)
                    /\ NumLt(entry_num.digits, LIMIT)
                THEN FilterFromSkipping(cal, i + 1,
                        Append(results,
                               [date |-> Ymd(entry_date.y, entry_date.m, entry_date.d),
                                num |-> DigitsVal(entry_num.digits)]))
            ELSE FilterFromSkipping(cal, i + 1, results)

RECURSIVE FilterFrom(_, _, _)
FilterFrom(cal, i, results) ==
    IF i > Len(cal) THEN Ok(results)
    ELSE
        LET entry == cal[i]
            entry_date == ParseDate(entry.start_date)
            entry_num == ParseU64(entry.num)
        IN  IF ~entry_date.ok
                THEN Err(<< Desc("Invalid 'start_date' string from PCTA = '{}', does not match {}",
                                 << entry.start_date >>),
                            Desc(entry_date.kind, << >>) >>)
            ELSE IF ~entry_num.ok
                THEN Err(<< Desc("Invalid 'num' string from PCTA = '{}' on start_date = '{}'",
                                 << entry.num, entry.start_date >>),
                            Desc(entry_num.kind, << >>) >>)
            ELSE IF /\ DateLt(range_start, Ymd(entry_date.y, entry_date.m, entry_date.d))
                    /\ DateLe(Ymd(entry_date.y, entry_date.m, entry_date.d), range_end)
                    /\ NumLt(entry_num.digits, LIMIT)
                THEN FilterFrom(cal, i + 1,
                        Append(results,
                               [date |-> Ymd(entry_date.y, entry_date.m, entry_date.d),
                                num |-> DigitsVal(entry_num.digits)]))
            ELSE FilterFrom(cal, i + 1, results)

\* main.rs:123-151
FilterCalendar(cal) == FilterFrom(cal, 1, << >>)

\* Data (main.rs:65-69)
Data(l, cal) == [ok |-> TRUE, limit |-> l, calendar |-> cal]

\* the filter made to honour the page's own limit as well: an entry is kept
\* only if its num is also below data.limit
FilterDataDeclared(data) ==
    LET RECURSIVE From(_, _)
        From(i, results) ==
            IF i > Len(data.calendar) THEN Ok(results)
            ELSE LET one == FilterFrom(<< data.calendar[i] >>, 1, << >>)
                     num == ParseU64(data.calendar[i].num)
                 IN  IF one.tag = "Err" THEN one
                     ELSE IF one.val # << >> /\ DigitsVal(num.digits) < data.limit
                         THEN From(i + 1, results \o one.val)
                     ELSE From(i + 1, results)
    IN  From(1, << >>)

\* what scrape does with the parsed Data (main.rs:118-151): data.calendar
\* is consumed by the for loop, data.limit is never read
FilterData(data) == FilterCalendar(data.calendar)

----------------------------------------------------------------------------
(* The fetched page and the extraction of the data blob *)

\* A piece of the text of a <script> element.  "VAR" is the text
\* `var data = `, "LP" `(`, "RP" `)`, "SEMI" `;`, "NL" a line break, "TEXT"
\* other text without braces, and "OBJ" a text `{...}`; wf says whether that
\* text is JSON of the shape of Data (main.rs:65-69), and then limit and
\* calendar are its fields.
Tok(t) == [t |-> t, wf |-> FALSE, limit |-> 0, calendar |-> << >>]

Obj(l, cal) == [t |-> "OBJ", wf |-> TRUE, limit |-> l, calendar |-> cal]

BadObj == [t |-> "OBJ", wf |-> FALSE, limit |-> 0, calendar |-> << >>]

\* the pattern read with its parentheses as text: `var data = ({...});`
MatchAtParenthesised(inner, i, j) ==
    /\ i + 2 <= j /\ j + 2 <= Len(inner)
    /\ inner[i].t = "VAR"
    /\ inner[i + 1].t = "LP"
    /\ inner[i + 2].t = "OBJ"
    /\ inner[j].t = "OBJ"
    /\ inner[j + 1].t = "RP"
    /\ inner[j + 2].t = "SEMI"
    /\ \A k \in (i + 1)..j : inner[k].t # "NL"

\* `var data = (\{.*\});` (main.rs:104) matches at i up to j: `var data = `
\* directly followed by `{`, then anything but a line break up to a `}`
\* that is directly followed by `;`
MatchAt(inner, i, j) ==
    /\ i + 1 <= j /\ j + 1 <= Len(inner)
    /\ inner[i].t = "VAR"
    /\ inner[i + 1].t = "OBJ"
    /\ inner[j].t = "OBJ"
    /\ inner[j + 1].t = "SEMI"
    /\ \A k \in (i + 1)..j : inner[k].t # "NL"

MatchStarts(inner) ==
    { i \in 1..Len(inner) : \E j \in 1..Len(inner) : MatchAt(inner, i, j) }

Min(S) == CHOOSE x \in S : \A y \in S : x <= y

Max(S) == CHOOSE x \in S : \A y \in S : y <= x

\* re.captures_iter(&inner_html).next() (main.rs:111): the leftmost match,
\* its `.*` taken as long as possible; cap is capture group 1
FirstCapture(inner) ==
    IF MatchStarts(inner) = {} THEN [found |-> FALSE, cap |-> << >>]
    ELSE LET i == Min(MatchStarts(inner))
             j == Max({ k \in 1..Len(inner) : MatchAt(inner, i, k) })
         IN  [found |-> TRUE, cap |-> SubSeq(inner, i + 1, j)]

\* serde_json::from_str::<Data>(data_str) (main.rs:115): the whole text must
\* be one JSON value of the shape of Data
ParseData(cap) ==
    IF Len(cap) = 1 /\ cap[1].wf
        THEN Data(cap[1].limit, cap[1].calendar)
        ELSE [ok |-> FALSE, limit |-> 0, calendar |-> << >>]

\* What the GET produced: fetch is "err" when send() or text() failed
\* (main.rs:96-98); scripts are the texts of the elements that
\* `.container > script[type='text/javascript']` selects, in document order.
Page(f, scripts) == [fetch |-> f, scripts |-> scripts]

UnwrapNone == "called Option::unwrap() on a None value"

\* scrape (main.rs:71-152)
Scrape(p) ==
    IF p.fetch = "err"
        THEN Err(<< Desc("error sending request for url", << >>) >>)
    ELSE IF p.scripts = << >>
        THEN Err(<< Desc("Failed to select <script> tag in HTML document. We may be getting IP blocked or CAPTCHA",
                         << >>) >>)
    ELSE
        LET inner_html == p.scripts[1]
            caps == FirstCapture(inner_html)
            data == ParseData(caps.cap)
        IN  IF ~caps.found THEN Panicked(UnwrapNone)
            ELSE IF ~data.ok
                THEN Err(<< Desc("We parsed Invalid JSON from the PCTA <script> tag, investiagate the script tag or the regex result",
                                 << >>),
                            Desc("serde_json::Error", << >>) >>)
            ELSE FilterData(data)

----------------------------------------------------------------------------
(* handle_result *)

NoTime == -1

NoDesc == Desc("", << >>)

\* a message body: the format string and the values written into it
Body(template, now, count, lines, desc, hms) ==
    [template |-> template, now |-> now, count |-> count, lines |-> lines,
     desc |-> desc, hms |-> hms]

\* the JSON handed to `keybase chat api -m`; method, channel name and
\* members_type are the same in every message
Payload(topic, body) == [topic |-> topic, body |-> body]

NoPayload == Payload("", Body("", NoTime, 0, << >>, NoDesc, << 0, 0, 0 >>))

AlertLinesRaw(open_dates) ==
    [i \in 1..Len(open_dates) |->
        [date |-> open_dates[i].date, remaining |-> open_dates[i].num]]

\* the lines `* `{date}`: {LIMIT - num}` (main.rs:191-193)
AlertLines(open_dates) ==
    [i \in 1..Len(open_dates) |->
        [date |-> open_dates[i].date, remaining |-> LIMIT - open_dates[i].num]]

\* `{}` of an anyhow::Error prints the outermost message of its chain
Display(e) == Head(e)

HandleResultMisrouted(r, now) ==
    IF r.tag = "Ok"
        THEN Payload("pcta-alerts",
                     Body("@jacobyoung - *There are {} NEW starting dates open!*",
                          now, Len(r.val), AlertLines(r.val), NoDesc, << 0, 0, 0 >>))
        ELSE Payload("pcta-logs",
                     Body("Failed to scrape PCTA page with error = {}",
                          NoTime, 0, << >>, Display(r.err), << 0, 0, 0 >>))

\* handle_result (main.rs:154-240); it returns Ok in every branch, as
\* write! into a String does not fail
HandleResult(r, now) ==
    IF r.tag = "Ok"
        THEN IF r.val = << >>
            THEN Payload("pcta-logs",
                         Body("{} @ There are zero available permits in the date range",
                              now, 0, << >>, NoDesc, << 0, 0, 0 >>))
            ELSE Payload("pcta-alerts",
                         Body("@jacobyoung - *There are {} NEW starting dates open!*",
                              now, Len(r.val), AlertLines(r.val), NoDesc, << 0, 0, 0 >>))
        ELSE Payload("pcta-errors",
                     Body("Failed to scrape PCTA page with error = {}",
                          NoTime, 0, << >>, Display(r.err), << 0, 0, 0 >>))

----------------------------------------------------------------------------
(* Inputs *)

\* start_date texts: the day range_start, a day inside the range written
\* without zero padding, the day range_end, the day after it, a day that
\* does not exist, a text in another format
DateStrings ==
    { << "2","0","2","3","-","0","4","-","0","1" >>,
      << "2","0","2","3","-","4","-","1","0" >>,
      << "2","0","2","3","-","0","5","-","0","5" >>,
      << "2","0","2","3","-","0","5","-","0","6" >>,
      << "2","0","2","3","-","0","2","-","3","0" >>,
      << "0","4","/","1","0","/","2","0","2","3" >> }

\* num texts: 0, LIMIT - 1, LIMIT, a number with a sign, a negative number,
\* u64::MAX + 1
NumStrings ==
    { << "0" >>, << "4","9" >>, << "5","0" >>, << "+","7" >>, << "-","1" >>,
      << "1","8","4","4","6","7","4","4","0","7",
         "3","7","0","9","5","5","1","6","1","6" >> }

Entry(sd, n) == [start_date |-> sd, num |-> n]

Entries == { Entry(sd, n) : sd \in DateStrings, n \in NumStrings }

SeqsUpTo(S, n) == UNION { [1..k -> S] : k \in 0..n }

Calendars == SeqsUpTo(Entries, MaxLen)

DeclaredLimits == { 50, 10 }

D0410 == << "2","0","2","3","-","0","4","-","1","0" >>

D0420 == << "2","0","2","3","-","0","4","-","2","0" >>

Cal30 == << Entry(D0410, << "3","0" >>) >>

\* the script text `var data = {...};`
DataScript(cal) == << Tok("VAR"), Obj(50, cal), Tok("SEMI") >>

\* pages the GET can produce
Pages ==
    { Page("err", << >>),
      Page("ok", << >>),
      Page("ok", << << Tok("TEXT") >> >>),
      Page("ok", << << Tok("VAR"), Tok("LP"), Obj(50, Cal30), Tok("RP"), Tok("SEMI") >> >>),
      Page("ok", << << Tok("VAR"), BadObj, Tok("SEMI") >> >>),
      Page("ok", << DataScript(<< >>) >>),
      Page("ok", << DataScript(Cal30) >>),
      Page("ok", << DataScript(<< Entry(D0410, << "5" >>), Entry(D0420, << "1","0" >>),
                                  Entry(D0410, << "5","0" >>) >>) >>),
      Page("ok", << DataScript(<< Entry(D0410, << "3","0" >>),
                                  Entry(<< "s","o","o","n" >>, << "1" >>) >>) >>),
      Page("ok", << DataScript(<< Entry(D0410, << "n","/","a" >>) >>) >>),
      Page("ok", << << Tok("VAR"), Obj(50, Cal30), Tok("SEMI"), Tok("NL"),
                       Tok("VAR"), Obj(50, << >>), Tok("SEMI") >> >>) }

NoPage == Page("none", << >>)

Hms(h, m, s) == ((h * 60 + m) * 60 + s) * 1000

\* local times of day at which a tick can fall, in milliseconds
TimesOfDay ==
    { Hms(0, 0, 0), Hms(11, 59, 0), Hms(11, 59, 59) + 500, Hms(12, 0, 0),
      Hms(16, 30, 15), Hms(20, 0, 0), Hms(20, 0, 0) + 1, Hms(23, 59, 59) }

\* the time of day for which the filter harness formats its message
HarnessTime == Hms(16, 30, 15)

----------------------------------------------------------------------------
(* loop_scrape *)

NoPanic == ""

KeybaseExpect == "Failed to call keybase API process (err)"

MullvadExpect == "Failed to call mullvad reconnect (err)"

\* main.rs:255
start == Hms(12, 0, 0)

\* main.rs:257
end == Hms(20, 0, 0)

\* the timestamp `now` (main.rs:252): the clock in whole seconds
Now(t) == t \div 1000

\* i64 division and remainder of Rust, rounding toward zero
TruncDiv(a, b) == IF a >= 0 THEN a \div b ELSE -((-a) \div b)

TruncRem(a, b) == a - b * TruncDiv(a, b)

\* main.rs:260
OutsideWindowExclusive(t) == t <= start \/ t >= end

OutsideWindow(t) == t < start \/ t > end

\* main.rs:261-285
NotScrapingMsg(t) ==
    LET num_seconds == TruncDiv(t - start, 1000)
        seconds == TruncRem(num_seconds, 60)
        minutes == TruncRem(TruncDiv(num_seconds, 60), 60)
        hours == TruncDiv(TruncDiv(num_seconds, 60), 60)
    IN  Payload("pcta-logs",
                Body("Not scraping since we're before business hours 9AM - 5PM PST. Next scrape in : {}h {}m {}s",
                     NoTime, 0, << >>, NoDesc, << hours, minutes, seconds >>))

\* main.rs:314-330
ReconnectedMsg(now) ==
    Payload("pcta-logs",
            Body("{} - *Reconnected to the VPN*", now, 0, << >>, NoDesc, << 0, 0, 0 >>))

RandIntervalUnclamped(r) == (r % (PERIOD_MAX + PERIOD_MIN)) + PERIOD_MIN

\* main.rs:244-245; rand::random::<u64>() % 64 is any of 0..63
RandInterval(r) ==
    LET num == (r % (PERIOD_MAX + PERIOD_MIN)) + PERIOD_MIN
    IN  IF num < PERIOD_MIN THEN PERIOD_MIN
        ELSE IF num > PERIOD_MAX THEN PERIOD_MAX ELSE num

Init ==
    /\ pc = "start"
    /\ rand_interval = 0
    /\ now_time = NoTime
    /\ page = NoPage
    /\ res = NoRes
    /\ msg_json = NoPayload
    /\ issued = << >>
    /\ reconnects = 0
    /\ fetched = FALSE
    /\ tick_kind = "none"
    /\ panic = NoPanic
    /\ calendar = << >>
    /\ limit = 0
    /\ children = << >>
    /\ overtook = 0

\* main.rs:244-247
Start ==
    /\ pc = "start"
    /\ \E r \in 0..(PERIOD_MAX + PERIOD_MIN - 1) : rand_interval' = RandInterval(r)
    /\ pc' = "waiting"
    /\ UNCHANGED << now_time, page, res, msg_json, issued, reconnects, fetched,
                    tick_kind, panic, calendar, limit, children, overtook >>

\* main.rs:250-260: the interval elapses, the clock is read, the window is
\* tested; what the previous tick left behind is dropped
Tick ==
    /\ pc = "waiting"
    /\ \E t \in TimesOfDay :
        /\ now_time' = t
        /\ tick_kind' = IF OutsideWindow(t) THEN "outside" ELSE "inside"
        /\ pc' = IF OutsideWindow(t) THEN "outside" ELSE "scrape"
    /\ page' = NoPage
    /\ res' = NoRes
    /\ msg_json' = NoPayload
    /\ issued' = << >>
    /\ reconnects' = 0
    /\ fetched' = FALSE
    /\ children' = [i \in 1..Len(children) |-> [children[i] EXCEPT !.cur = FALSE]]
    /\ UNCHANGED << rand_interval, panic, calendar, limit, overtook >>

\* a process started by Command::spawn (main.rs:292, 305, 313, 337); the
\* Child is dropped at once, nothing waits for the process.  cur says that
\* the tick that started it is still the current one.
Child(cmd) == [cmd |-> cmd, cur |-> TRUE]

\* Command::spawn of keybase followed by expect: the process starts, or the
\* task panics
SpawnKeybase(msg, next) ==
    \E spawned \in BOOLEAN :
        IF spawned
            THEN /\ Len(children) < MaxChildren
                 /\ issued' = Append(issued, msg)
                 /\ children' = Append(children, Child("keybase"))
                 /\ pc' = next
                 /\ panic' = panic
            ELSE /\ issued' = issued
                 /\ children' = children
                 /\ pc' = "panicked"
                 /\ panic' = KeybaseExpect

\* main.rs:261-294
NotScraping ==
    /\ pc = "outside"
    /\ SpawnKeybase(NotScrapingMsg(now_time), "waiting")
    /\ UNCHANGED << rand_interval, now_time, page, res, msg_json, reconnects,
                    fetched, tick_kind, calendar, limit, overtook >>

\* main.rs:297
DoScrape ==
    /\ pc = "scrape"
    /\ \E p \in Pages :
        /\ page' = p
        /\ res' = Scrape(p)
        /\ pc' = IF Scrape(p).tag = "Panic" THEN "panicked" ELSE "classify"
        /\ panic' = IF Scrape(p).tag = "Panic" THEN UnwrapNone ELSE panic
    /\ fetched' = TRUE
    /\ UNCHANGED << rand_interval, now_time, msg_json, issued, reconnects,
                    tick_kind, calendar, limit, children, overtook >>

\* main.rs:298
Classify ==
    /\ pc = "classify"
    /\ msg_json' = HandleResult(res, Now(now_time))
    /\ pc' = "notify"
    /\ UNCHANGED << rand_interval, now_time, page, res, issued, reconnects,
                    fetched, tick_kind, panic, calendar, limit, children, overtook >>

AfterNotifyAlways(r) == "reconnect"

\* main.rs:311: `if res.is_err()`
AfterNotify(r) == IF r.tag = "Err" THEN "reconnect" ELSE "waiting"

\* main.rs:299-311
Notify ==
    /\ pc = "notify"
    /\ tick_kind = "inside"
    /\ SpawnKeybase(msg_json, AfterNotify(res))
    /\ UNCHANGED << rand_interval, now_time, page, res, msg_json, reconnects,
                    fetched, tick_kind, calendar, limit, overtook >>

\* main.rs:312-313
Reconnect ==
    /\ pc = "reconnect"
    /\ \E spawned \in BOOLEAN :
        IF spawned
            THEN /\ Len(children) < MaxChildren
                 /\ reconnects' = reconnects + 1
                 /\ children' = Append(children, Child("mullvad"))
                 /\ pc' = "renotify"
                 /\ panic' = panic
            ELSE /\ reconnects' = reconnects
                 /\ children' = children
                 /\ pc' = "panicked"
                 /\ panic' = MullvadExpect
    /\ UNCHANGED << rand_interval, now_time, page, res, msg_json, issued,
                    fetched, tick_kind, calendar, limit, overtook >>

\* main.rs:314-342
ReconnectNotify ==
    /\ pc = "renotify"
    /\ SpawnKeybase(ReconnectedMsg(Now(now_time)), "waiting")
    /\ UNCHANGED << rand_interval, now_time, page, res, msg_json, reconnects,
                    fetched, tick_kind, calendar, limit, overtook >>

\* keybase processes started before children[i] and still running
OlderKeybase(i) ==
    Cardinality({ k \in 1..(i - 1) : children[k].cmd = "keybase" })

\* A spawned process does its work (keybase hands its message to the chat
\* service, mullvad reconnects) and ends; the processes run on their own,
\* so any of them can be the next to finish
ChildExit ==
    /\ \E i \in 1..Len(children) :
        /\ children' = SubSeq(children, 1, i - 1) \o SubSeq(children, i + 1, Len(children))
        /\ overtook' = IF children[i].cmd = "keybase" THEN OlderKeybase(i) ELSE overtook
    /\ UNCHANGED << pc, rand_interval, now_time, page, res, msg_json, issued,
                    reconnects, fetched, tick_kind, panic, calendar, limit >>

Next ==
    \/ Start
    \/ Tick
    \/ NotScraping
    \/ DoScrape
    \/ Classify
    \/ Notify
    \/ Reconnect
    \/ ReconnectNotify
    \/ ChildExit

Spec == Init /\ [][Next]_vars

----------------------------------------------------------------------------
(* The filter and the classifier on their own: the for loop of scrape is    *)
(* run on a calendar, and handle_result on what it returns.                 *)

InitFilter ==
    /\ pc = "filter"
    /\ calendar \in Calendars
    /\ limit \in DeclaredLimits
    /\ rand_interval = 0
    /\ now_time = HarnessTime
    /\ page = NoPage
    /\ res = NoRes
    /\ msg_json = NoPayload
    /\ issued = << >>
    /\ reconnects = 0
    /\ fetched = FALSE
    /\ tick_kind = "none"
    /\ panic = NoPanic
    /\ children = << >>
    /\ overtook = 0

\* main.rs:115-151 on a page whose blob parsed to Data { limit, calendar }
ApplyFilter ==
    /\ pc = "filter"
    /\ res' = FilterData(Data(limit, calendar))
    /\ pc' = "classify"
    /\ UNCHANGED << rand_interval, now_time, page, msg_json, issued, reconnects,
                    fetched, tick_kind, panic, calendar, limit, children, overtook >>

NextFilter == ApplyFilter \/ Classify

SpecFilter == InitFilter /\ [][NextFilter]_vars

----------------------------------------------------------------------------
(* What the properties say about texts, stated without the parsers *)

DashPositions(s) == { i \in 1..Len(s) : s[i] = "-" }

AllDigits(s) == \A i \in 1..Len(s) : IsDigit(s[i])

YearText(s) == SubSeq(s, 1, Min(DashPositions(s)) - 1)

MonthText(s) == SubSeq(s, Min(DashPositions(s)) + 1, Max(DashPositions(s)) - 1)

DayText(s) == SubSeq(s, Max(DashPositions(s)) + 1, Len(s))

\* s is year-month-day in digits and names a day of the calendar
ValidDateText(s) ==
    /\ Cardinality(DashPositions(s)) = 2
    /\ Len(YearText(s)) \in 1..4 /\ AllDigits(YearText(s))
    /\ Len(MonthText(s)) \in 1..2 /\ AllDigits(MonthText(s))
    /\ Len(DayText(s)) \in 1..2 /\ AllDigits(DayText(s))
    /\ ValidYmd(DigitsVal(YearText(s)), DigitsVal(MonthText(s)), DigitsVal(DayText(s)))

DateOf(s) == Ymd(DigitsVal(YearText(s)), DigitsVal(MonthText(s)), DigitsVal(DayText(s)))

DayNumber(d) == d.y * 10000 + d.m * 100 + d.d

Unsigned(s) == IF s # << >> /\ s[1] = "+" THEN SubSeq(s, 2, Len(s)) ELSE s

\* s is an unsigned integer of at most nine digits, with or without '+';
\* the inputs have no longer number below u64::MAX
ValidNumText(s) ==
    /\ Unsigned(s) # << >>
    /\ AllDigits(Unsigned(s))
    /\ Len(Unsigned(s)) <= 9

CountOf(s) == DigitsVal(Unsigned(s))

ValidEntry(e) == ValidDateText(e.start_date) /\ ValidNumText(e.num)

\* R.start < e.date <= R.end and e.count < L
Included(e) ==
    /\ 20230401 < DayNumber(DateOf(e.start_date))
    /\ DayNumber(DateOf(e.start_date)) <= 20230505
    /\ CountOf(e.num) < 50

ExpectedPairs(cal) ==
    LET sel == SelectSeq(cal, Included)
    IN  [i \in 1..Len(sel) |->
            [date |-> DateOf(sel[i].start_date), num |-> CountOf(sel[i].num)]]

Filtered == pc \in {"classify", "notify"}

\* C1: when every entry of the calendar parses, the filter returns exactly
\* the entries with range_start < date <= range_end and num < LIMIT, in
\* calendar order, nothing added, dropped, duplicated or re-sorted.
C1_FilterExact ==
    (Filtered /\ \A i \in 1..Len(calendar) : ValidEntry(calendar[i]))
        => res = Ok(ExpectedPairs(calendar))

C1_Witness ==
    /\ Filtered
    /\ Len(calendar) = 2
    /\ \A i \in 1..2 : ValidEntry(calendar[i])
    /\ ~Included(calendar[1])
    /\ Included(calendar[2])
    /\ res.tag = "Ok" /\ Len(res.val) = 1

C3_ChannelByVariant ==
    /\ pc = "notify" => msg_json # NoPayload
    /\ msg_json # NoPayload =>
        /\ (res.tag = "Ok" /\ res.val = << >>) => msg_json.topic = "pcta-logs"
        /\ (res.tag = "Ok" /\ res.val # << >>) => msg_json.topic = "pcta-alerts"
        /\ res.tag = "Err" => msg_json.topic = "pcta-errors"

C3_Witness ==
    /\ pc = "notify"
    /\ res.tag = "Ok" /\ res.val # << >>
    /\ msg_json.topic = "pcta-alerts"

AlertBuilt == pc = "notify" /\ res.tag = "Ok" /\ res.val # << >>

\* C4 as stated: the alert lists each pair's date with the pair's own
\* number and states the number of pairs.
C4_Original ==
    AlertBuilt =>
        /\ msg_json.body.count = Len(res.val)
        /\ Len(msg_json.body.lines) = Len(res.val)
        /\ \A i \in 1..Len(res.val) :
            /\ msg_json.body.lines[i].date = res.val[i].date
            /\ msg_json.body.lines[i].remaining = res.val[i].num

\* C4 amended: the alert lists, in input order, each pair's date with LIMIT
\* minus the pair's number, and states the number of pairs.
C4_AlertEnumerates ==
    AlertBuilt =>
        /\ msg_json.topic = "pcta-alerts"
        /\ msg_json.body.count = Len(res.val)
        /\ Len(msg_json.body.lines) = Len(res.val)
        /\ \A i \in 1..Len(res.val) :
            /\ msg_json.body.lines[i].date = res.val[i].date
            /\ msg_json.body.lines[i].remaining = 50 - res.val[i].num

C4_Witness ==
    /\ AlertBuilt
    /\ Len(res.val) = 2
    /\ res.val[1].num # res.val[2].num
    /\ msg_json.body.count = 2

InWindow(t) == Hms(12, 0, 0) <= t /\ t <= Hms(20, 0, 0)

\* C5: a tick fetches and scrapes exactly when 12:00:00 <= time of day <=
\* 20:00:00; a tick outside the window never fetches or reconnects, and has
\* issued one pcta-logs message and nothing else when it returns to waiting.
C5_BusinessHoursGate ==
    tick_kind # "none" =>
        /\ tick_kind = "inside" <=> InWindow(now_time)
        /\ (fetched \/ pc = "scrape") <=> InWindow(now_time)
        /\ ~InWindow(now_time) =>
            /\ reconnects = 0
            /\ pc = "outside" => issued = << >>
            /\ pc = "waiting" =>
                (Len(issued) = 1 /\ issued[1].topic = "pcta-logs")

C5_Witness ==
    /\ pc = "waiting"
    /\ now_time = Hms(11, 59, 0)
    /\ ~fetched
    /\ Len(issued) = 1

NoScript(p) == p.fetch = "ok" /\ p.scripts = << >>

NoDataRegion(p) ==
    /\ p.fetch = "ok" /\ p.scripts # << >>
    /\ ~\E i, j \in 1..Len(p.scripts[1]) : MatchAt(p.scripts[1], i, j)

MalformedData(p) ==
    /\ p.fetch = "ok" /\ p.scripts # << >>
    /\ FirstCapture(p.scripts[1]).found
    /\ LET data == ParseData(FirstCapture(p.scripts[1]).cap)
       IN  ~data.ok \/ \E i \in 1..Len(data.calendar) : ~ValidEntry(data.calendar[i])

TickOver == pc \in {"waiting", "panicked"}

\* C6: a fetch error, a missing script tag, a missing `var data = ...`
\* region or a parse error makes scrape return an Err, which is classified;
\* it does not end loop_scrape.
C6_ErrorsCaptured ==
    (fetched /\ (page.fetch = "err" \/ NoScript(page) \/ NoDataRegion(page)
                    \/ MalformedData(page)))
        => (res.tag = "Err" /\ panic # UnwrapNone)

\* C7: a tick whose scrape failed, in particular for want of a script tag or
\* a data region, has issued a pcta-errors message and has invoked the
\* reconnect exactly once when it is over.
C7_FailureReconnectsOnce ==
    (TickOver /\ fetched
        /\ (res.tag = "Err" \/ NoScript(page) \/ NoDataRegion(page)))
        => (/\ \E i \in 1..Len(issued) : issued[i].topic = "pcta-errors"
            /\ reconnects = 1)

\* C8: once the reconnect of a failing tick has been invoked, whether or not
\* it could be started, the tick issues the pcta-logs message about the
\* reconnection and loop_scrape goes back to waiting.
C8_ReconnectNonFatal ==
    (TickOver /\ (reconnects = 1 \/ panic = MullvadExpect))
        => (/\ pc = "waiting"
            /\ issued # << >>
            /\ issued[Len(issued)] = ReconnectedMsg(Now(now_time)))

\* C9: a keybase process that cannot be started does not end loop_scrape.
C9_DeliveryNonFatal == panic # KeybaseExpect

FailuresOfTick ==
    (IF res.tag = "Err" THEN { Display(res.err) } ELSE {})
        \cup (IF panic # NoPanic THEN { Desc(panic, << >>) } ELSE {})

\* C10: when a tick is over, every failure that occurred in it has been
\* issued as a pcta-errors message whose body holds its description.
C10_FailuresSurface ==
    TickOver =>
        \A f \in FailuresOfTick :
            \E i \in 1..Len(issued) :
                issued[i].topic = "pcta-errors" /\ issued[i].body.desc = f

\* C11: notifications reach the chat service in the order in which
\* loop_scrape issued them: no keybase process delivers its message while a
\* keybase process started before it, in the same tick or an earlier one, is
\* still to deliver.
C11_DeliveryInOrder == overtook = 0

\* C12: when loop_scrape waits for the next interval, every process that the
\* tick before started (delivery and reconnect) has finished.
C12_TickCompletes == pc = "waiting" => children = << >>

\* C13: after the draw at the start the interval lies in 24..40, the draw is
\* never repeated and no step of any tick changes the interval.
C13_IntervalFixed ==
    /\ [](pc # "start" => rand_interval \in 24..40)
    /\ [][pc # "start" => (pc' # "start" /\ rand_interval' = rand_interval)]_vars

C13_Witness ==
    /\ pc = "waiting"
    /\ tick_kind = "inside"
    /\ res.tag = "Err"
    /\ reconnects = 1
    /\ rand_interval = 40

Day0410 == Ymd(2023, 4, 10)

\* the script `var data = ({"limit":50,"calendar":[{"start_date":"2023-04-10","num":"30"}]});`
ParenthesisedPage ==
    Page("ok", << << Tok("VAR"), Tok("LP"), Obj(50, Cal30), Tok("RP"), Tok("SEMI") >> >>)

\* the script `var data = {"limit":50,"calendar":[{"start_date":"2023-04-10","num":"30"}]};`
PlainPage == Page("ok", << DataScript(Cal30) >>)

\* C14 as stated: the page with the blob in parentheses is scraped to
\* [(2023-04-10, 20)] and classified to pcta-alerts with the line
\* 2023-04-10: 20.
C14_Original ==
    (fetched /\ page = ParenthesisedPage) =>
        /\ res = Ok(<< [date |-> Day0410, num |-> 20] >>)
        /\ msg_json # NoPayload =>
            /\ msg_json.topic = "pcta-alerts"
            /\ msg_json.body.lines = << [date |-> Day0410, remaining |-> 20] >>

\* C14 amended: the page with the blob directly after `var data = ` is
\* scraped to [(2023-04-10, 30)], the pair holding the entry's num, and
\* classified to pcta-alerts with the one line 2023-04-10: 20.
C14_EndToEnd ==
    (fetched /\ page = PlainPage) =>
        /\ res = Ok(<< [date |-> Day0410, num |-> 30] >>)
        /\ pc # "classify" =>
            /\ msg_json.topic = "pcta-alerts"
            /\ msg_json.body.count = 1
            /\ msg_json.body.lines = << [date |-> Day0410, remaining |-> 20] >>

C14_Witness ==
    /\ pc = "waiting"
    /\ page = PlainPage
    /\ Len(issued) = 1
    /\ issued[1].topic = "pcta-alerts"

\* how many of the 64 equally likely values of random % 64 give interval v
DrawsGiving(v) ==
    Cardinality({ r \in 0..63 : RandInterval(r) = v })

\* C15: every interval of 24..40 comes from the same number of draws.
C15_Uniform ==
    pc # "start" =>
        \A v \in 24..40 : DrawsGiving(v) = DrawsGiving(rand_interval)

\* milliseconds from time of day t to the next 12:00:00
UntilOpening(t) ==
    IF t < Hms(12, 0, 0) THEN Hms(12, 0, 0) - t ELSE Hms(24, 0, 0) - t + Hms(12, 0, 0)

\* C16: the hours, minutes and seconds of the message of a tick outside the
\* window are not negative and add up to the time until the next 12:00:00,
\* in whole seconds.
C16_RemainingWait ==
    (tick_kind = "outside" /\ issued # << >>) =>
        LET hms == issued[1].body.hms
            total == (hms[1] * 60 + hms[2]) * 60 + hms[3]
        IN  /\ hms[1] >= 0 /\ hms[2] >= 0 /\ hms[3] >= 0
            /\ total * 1000 <= UntilOpening(now_time)
            /\ UntilOpening(now_time) < (total + 1) * 1000

\* the places of the script text where a `var data = {...};` region starts
Regions(inner) ==
    { i \in 1..Len(inner) : \E j \in 1..Len(inner) : MatchAt(inner, i, j) }

\* C17: scrape gets a calendar out of the page, and so returns Ok, only
\* when the script has exactly one region; with none or several it does not
\* pick one.
C17_ExactlyOneRegion ==
    (fetched /\ res.tag = "Ok")
        => Cardinality(Regions(page.scripts[1])) = 1

\* C18: the result of the filter is the one it returns for the same calendar
\* under any other declared limit.
C18_DeclaredLimitIgnored ==
    Filtered => \A l \in DeclaredLimits : FilterData(Data(l, calendar)) = res

C18_Witness ==
    /\ Filtered
    /\ limit = 10
    /\ res.tag = "Ok"
    /\ \E i \in 1..Len(res.val) : res.val[i].num >= 10

\* C19: every pair of an Ok result has 0 <= num < LIMIT, so LIMIT - num does
\* not go below zero and every remaining capacity of an alert is in 1..LIMIT.
C19_NoUnderflow ==
    /\ res.tag = "Ok" =>
        \A i \in 1..Len(res.val) : res.val[i].num >= 0 /\ res.val[i].num < 50
    /\ \A i \in 1..Len(msg_json.body.lines) :
        msg_json.body.lines[i].remaining \in 1..50

C19_Witness ==
    /\ pc = "notify"
    /\ Len(msg_json.body.lines) = 2
    /\ msg_json.body.lines[1].remaining = 50
    /\ msg_json.body.lines[2].remaining = 1

IsReconnectedMsg(m) == m.body.template = "{} - *Reconnected to the VPN*"

\* C20: mullvad is started, and the message about the reconnection issued,
\* only in a tick inside the window whose scrape returned Err, after that
\* tick's pcta-errors message, the reconnect first and its message second.
C20_ReconnectOnlyOnFailure ==
    (\/ pc \in {"reconnect", "renotify"}
     \/ reconnects > 0
     \/ \E i \in 1..Len(issued) : IsReconnectedMsg(issued[i]))
        => /\ tick_kind = "inside"
           /\ res.tag = "Err"
           /\ issued # << >>
           /\ issued[1].topic = "pcta-errors"
           /\ reconnects <= 1
           /\ \A i \in 1..Len(issued) :
                IsReconnectedMsg(issued[i]) => (i = 2 /\ reconnects = 1)

C20_Witness ==
    /\ pc = "waiting"
    /\ reconnects = 1
    /\ Len(issued) = 2
    /\ IsReconnectedMsg(issued[2])

====
